---- MODULE Spec2Model ----
(***************************************************************************)
(* A model of the ANPR pipeline (anpr-system): the ingestion stage's       *)
(* broker client and per-source capture loops, the message handlers of     *)
(* the consuming stages, and the confidence filter and retry ladder of     *)
(* the detection and recognition stages.                                   *)
(*                                                                         *)
(* Each coroutine is a process; an action is the code that runs between    *)
(* two suspension points (await) of one coroutine, so the interleavings    *)
(* of the actions are the schedules of the asyncio event loop.             *)
(***************************************************************************)
EXTENDS Integers, Sequences, FiniteSets, TLC

(***************************************************************************)
(* Bounds of the model.                                                    *)
(***************************************************************************)
\* config["batch_size"]: any positive integer (validate_config); 2 here.
BatchSize == 2
\* Frames appended to batches over all sources in one behaviour.
MaxFrames == 4

(***************************************************************************)
(* Program constants.                                                      *)
(***************************************************************************)
\* A retry decorator that allows one attempt more.
FourAttempts == 3 + 1
\* @retry(stop=stop_after_attempt(3), ...) on connect()
stop_after_attempt == 3
\* A capture loop that tolerates one failure more.
FourFailures == 3 + 1
\* max_failures = 3 in capture_stream
max_failures == 3
\* await asyncio.sleep(30): the cool-down period
COOLDOWN == 30
\* min(30, 2 ** consecutive_failures): the cap of the backoff
BACKOFF_CAP == 30

\* The configured streams (config["streams"]) and the coroutine of run().
Sources == {"camA", "camB"}
Main == "run"
Procs == Sources \cup {Main}

\* The StreamConfig.enabled flags of the configurations that are explored.
Configs ==
  { [s \in Sources |-> TRUE],
    [s \in Sources |-> s = "camA"] }

VARIABLES
  \* ---- ingestion_service: FrameIngestor
  enabled,              \* StreamConfig.enabled of each stream
  active_streams,       \* self.active_streams
  connection,           \* self.connection: "none", "open", "closed"
  channel,              \* self.channel: "none" or "open"
  queue_declared,       \* the durable queue exists at the broker
  pc,                   \* where each coroutine is suspended
  attempt,              \* tenacity's attempt number in the running connect(), or 0
  installed,            \* the running attempt has assigned self.channel
  batch,                \* capture_stream: batch
  consecutive_failures, \* capture_stream: consecutive_failures
  cap,                  \* capture_stream: cap ("unbound", "open", "closed")
  open_handles,         \* capture handles of a source opened and not released
  opened,               \* cv2.VideoCapture(stream.url) was called for the source
  captured,             \* frames of a source appended to a batch so far
  published,            \* the batches the broker accepted, per source
  delay,                \* the argument of the asyncio.sleep a coroutine is in
  \* ---- detection / ocr / tracking / storage service: process_message
  stage,                \* the service whose process this is
  h_pc,                 \* where the handler of each delivered message is
  h_msg,                \* the body of each delivered message
  h_pos,                \* the next item (sub-batch) of the message to process
  h_pending,            \* the size of the output message being published
  h_out,                \* the sizes of the output messages published for it
  h_inferred,           \* the items of it passed to self.model, by position
  h_attempt,            \* tenacity's attempt number in the handler's connect()
  h_err,                \* the error that ended the handler's try block
  h_acks,               \* basic.ack sent for the delivery
  h_rejects,            \* basic.reject sent for the delivery
  b_open,               \* broker connections the stage opened and has not closed
  b_channel,            \* the connection self.channel belongs to (by number)
  b_consumer,           \* the connection whose channel the consumer is registered on
  \* ---- detection_service: process_detections; ocr_service: process_ocr
  d_boxes,              \* results.boxes.data of the frame last processed
  d_out,                \* what process_detections did with it
  o_pc,                 \* where the recognition of the current item is
  o_retry,              \* retry_count of the running process_ocr call
  o_image,              \* the image the running process_ocr call holds
  o_calls,              \* the responses of self.ocr.ocr for the item, in order
  o_images,             \* the images self.ocr.ocr was called on, in order
  o_result,             \* what process_ocr returned to process_message
  o_forwarded,          \* the result last appended to the stage's output
  \* ---- tracking_service: VehicleTracker
  track_history,        \* self.track_history: track id -> list of positions
  k_status,             \* the associator's tracks: none, tentative, confirmed, deleted
  k_pc,                 \* where process_message is
  k_item,               \* the position (bbox centre, timestamp) of the current item
  k_todo,               \* the confirmed tracks of the item still to be handled
  k_events,             \* events: the events made for the message so far
  k_obs,                \* observations handed to the associator so far
  k_assoc,              \* the current item: was update_tracks called, and
                        \* the track its bbox was associated with (0: none)
  swept,                \* the stage's last step was cleanup_old_tracks
  running,              \* the coroutine the event loop is running, or "none"
  \* StorageService
  s_records,            \* the events table: id -> the number of rows with it
  s_error,              \* the exception the event handled last ended with
  s_blobs,              \* the objects of the bucket: key -> LastModified
  s_now,                \* datetime.utcnow(), in days
  s_pc,                 \* position of process_message
  s_todo,               \* the events of the message not yet handled
  s_tasks,              \* tasks added to the handler's BackgroundTasks
  s_processed,          \* a message has been processed to its end
  s_swept,              \* cleanup_old_data has been entered
  r_pc,                 \* position of cleanup_old_data
  r_cutoff,             \* cutoff_date
  r_committed,          \* the DELETE of this sweep has been committed
  r_deleted,            \* rows the DELETE of this sweep removed
  r_todo,               \* objects.get('Contents') not yet visited
  tz_aware,             \* LastModified carries a timezone
  \* the detections queue, between DetectionService and OCRService
  f_pc,                 \* "none", "queued" (published), "consumed"
  f_msg,                \* the body detection published for the frame
  f_submitted           \* the plate crops OCRService handed to process_ocr

ingestVars ==
  << enabled, active_streams, connection, channel, queue_declared, pc, attempt,
     installed, batch, consecutive_failures, cap, open_handles, opened,
     captured, published, delay >>

handlerVars ==
  << stage, h_pc, h_msg, h_pos, h_pending, h_out, h_inferred, h_attempt,
     h_err, h_acks, h_rejects, b_open, b_channel, b_consumer >>

inferVars ==
  << d_boxes, d_out, o_pc, o_retry, o_image, o_calls, o_images, o_result,
     o_forwarded >>

trackVars ==
  << track_history, k_status, k_pc, k_item, k_todo, k_events, k_obs,
     k_assoc, swept, running >>

storeVars ==
  << s_records, s_error, s_blobs, s_now, s_pc, s_todo, s_tasks, s_processed, s_swept,
     r_pc, r_cutoff, r_committed, r_deleted, r_todo, tz_aware >>

flowVars == << f_pc, f_msg, f_submitted >>

vars == << ingestVars, handlerVars, inferVars, trackVars, storeVars, flowVars >>

\* What the actions of one part of the model leave alone.
notIngest == << handlerVars, inferVars, trackVars, storeVars, flowVars >>
notHandler == << ingestVars, inferVars, trackVars, storeVars, flowVars >>
notTrack == << ingestVars, handlerVars, inferVars, storeVars, flowVars >>
notStore == << ingestVars, handlerVars, inferVars, trackVars, flowVars >>
notFlow == << ingestVars, handlerVars, inferVars, trackVars, storeVars >>
notInfer == << ingestVars, trackVars, storeVars, flowVars, h_pc, h_msg, h_pos, h_pending, h_out, h_inferred,
               h_attempt, h_err, h_acks, h_rejects, b_open, b_channel,
               b_consumer >>

Min(a, b) == IF a <= b THEN a ELSE b

RECURSIVE SumOver(_, _)
SumOver(f, S) ==
  IF S = {} THEN 0
  ELSE LET x == CHOOSE y \in S : TRUE IN f[x] + SumOver(f, S \ {x})

RECURSIVE Flatten(_)
Flatten(ss) == IF ss = << >> THEN << >> ELSE Head(ss) \o Flatten(Tail(ss))

(***************************************************************************)
(* FrameIngestor.__init__: every configured stream is active, no           *)
(* connection, no channel.                                                 *)
(***************************************************************************)
IngestInit ==
  /\ enabled \in Configs
  /\ active_streams = [s \in Sources |-> TRUE]
  /\ connection = "none"
  /\ channel = "none"
  /\ queue_declared = FALSE
  /\ pc = [p \in Procs |-> IF p = Main THEN "start" ELSE "idle"]
  /\ attempt = [p \in Procs |-> 0]
  /\ installed = [p \in Procs |-> FALSE]
  /\ batch = [s \in Sources |-> << >>]
  /\ consecutive_failures = [s \in Sources |-> 0]
  /\ cap = [s \in Sources |-> "unbound"]
  /\ open_handles = [s \in Sources |-> 0]
  /\ opened = [s \in Sources |-> FALSE]
  /\ captured = [s \in Sources |-> 0]
  /\ published = [s \in Sources |-> << >>]
  /\ delay = [s \in Sources |-> 0]

(***************************************************************************)
(* cv2.VideoCapture.release(): the handle the object holds, if it holds    *)
(* one, is given back.  h is [cap, n]: the state of the object that the    *)
(* variable cap names and the number of handles of the source still open.  *)
(***************************************************************************)
\* A release that gives nothing back.
NoRelease(h) == h

release(h) ==
  [cap |-> IF h.cap = "open" THEN "closed" ELSE h.cap,
   n   |-> IF h.cap = "open" THEN h.n - 1 ELSE h.n]

\* A buffer that takes the new frame at its front.
PrependFrame(b, f) == << f >> \o b

\* batch.append(jpeg.tobytes())
AppendFrame(b, f) == Append(b, f)

(***************************************************************************)
(* capture_stream, the except clause up to its first await: the counter is *)
(* incremented; at max_failures the coroutine sleeps 30 with the handle    *)
(* as it is, otherwise the handle is released and the coroutine sleeps     *)
(* min(30, 2 ** consecutive_failures).                                     *)
(***************************************************************************)
HandleError(s, h) ==
  LET f == consecutive_failures[s] + 1 IN
  /\ consecutive_failures' = [consecutive_failures EXCEPT ![s] = f]
  /\ IF f >= max_failures
       THEN /\ pc' = [pc EXCEPT ![s] = "cooldown"]
            /\ delay' = [delay EXCEPT ![s] = COOLDOWN]
            /\ cap' = [cap EXCEPT ![s] = h.cap]
            /\ open_handles' = [open_handles EXCEPT ![s] = h.n]
       ELSE /\ pc' = [pc EXCEPT ![s] = "backoff"]
            /\ delay' = [delay EXCEPT ![s] = Min(BACKOFF_CAP, 2 ^ f)]
            /\ cap' = [cap EXCEPT ![s] = release(h).cap]
            /\ open_handles' = [open_handles EXCEPT ![s] = release(h).n]

(***************************************************************************)
(* connect(), wrapped by tenacity: stop_after_attempt(3), reraise=True.    *)
(* An attempt is three awaits (connect_robust, connection.channel(),       *)
(* channel.declare_queue); the assignments made before a failing await     *)
(* stay.                                                                   *)
(***************************************************************************)
ConnStates == {"conn_open", "conn_channel", "conn_declare"}

BeginConnect(p) ==
  /\ attempt' = [attempt EXCEPT ![p] = 1]
  /\ installed' = [installed EXCEPT ![p] = FALSE]
  /\ pc' = [pc EXCEPT ![p] = "conn_open"]

\* connect() returned: run() creates one task per element of self.streams;
\* publish_batch returns to capture_stream, which clears the batch and
\* resets the counter.
ConnectReturns(p) ==
  /\ attempt' = [attempt EXCEPT ![p] = 0]
  /\ installed' = [installed EXCEPT ![p] = FALSE]
  /\ IF p = Main
       THEN /\ pc' = [q \in Procs |-> IF q = Main THEN "gather" ELSE "top"]
            /\ UNCHANGED << batch, consecutive_failures >>
       ELSE /\ pc' = [pc EXCEPT ![p] = "sample"]
            /\ batch' = [batch EXCEPT ![p] = << >>]
            /\ consecutive_failures' = [consecutive_failures EXCEPT ![p] = 0]

\* The last attempt failed: the exception leaves connect().  In run() it
\* ends the service (the finally clause closes the connection); in
\* publish_batch it reaches the except clause of capture_stream.
ConnectRaises(p) ==
  /\ attempt' = [attempt EXCEPT ![p] = 0]
  /\ installed' = [installed EXCEPT ![p] = FALSE]
  /\ IF p = Main
       THEN /\ pc' = [pc EXCEPT ![p] = "failed"]
            /\ connection' = IF connection = "open" THEN "closed" ELSE connection
            /\ UNCHANGED << consecutive_failures, cap, open_handles, delay >>
       ELSE /\ HandleError(p, [cap |-> cap[p], n |-> open_handles[p]])
            /\ UNCHANGED connection

\* An attempt raised: tenacity waits and starts the next one, or re-raises
\* after the last.
AttemptFails(p) ==
  IF attempt[p] < stop_after_attempt
    THEN /\ attempt' = [attempt EXCEPT ![p] = @ + 1]
         /\ installed' = [installed EXCEPT ![p] = FALSE]
         /\ pc' = [pc EXCEPT ![p] = "conn_open"]
         /\ UNCHANGED << consecutive_failures, cap, open_handles, delay, connection >>
    ELSE ConnectRaises(p)

\* self.connection = await connect_robust(self.amqp_url)
ConnectOpen(p) ==
  /\ pc[p] = "conn_open"
  /\ \/ /\ connection' = "open"
        /\ pc' = [pc EXCEPT ![p] = "conn_channel"]
        /\ UNCHANGED << attempt, installed, consecutive_failures, cap,
                        open_handles, delay >>
     \/ AttemptFails(p)
  /\ UNCHANGED << notIngest, enabled, active_streams, channel, queue_declared, batch,
                  opened, captured, published >>

\* self.channel = await self.connection.channel()
ConnectChannel(p) ==
  /\ pc[p] = "conn_channel"
  /\ \/ /\ channel' = "open"
        /\ installed' = [installed EXCEPT ![p] = TRUE]
        /\ pc' = [pc EXCEPT ![p] = "conn_declare"]
        /\ UNCHANGED << attempt, connection, consecutive_failures, cap,
                        open_handles, delay >>
     \/ /\ AttemptFails(p)
        /\ UNCHANGED channel
  /\ UNCHANGED << notIngest, enabled, active_streams, queue_declared, batch,
                  opened, captured, published >>

\* await self.channel.declare_queue(self.queue_name, durable=True)
ConnectDeclare(p) ==
  /\ pc[p] = "conn_declare"
  /\ \/ /\ queue_declared' = TRUE
        /\ ConnectReturns(p)
        /\ UNCHANGED << connection, cap, open_handles, delay >>
     \/ /\ AttemptFails(p)
        /\ UNCHANGED << queue_declared, batch >>
  /\ UNCHANGED << notIngest, enabled, active_streams, channel, opened, captured, published >>

(***************************************************************************)
(* run(): await self.connect(), then one capture_stream task per element   *)
(* of self.streams, gathered; the finally clause closes the connection.    *)
(***************************************************************************)
RunStart ==
  /\ pc[Main] = "start"
  /\ BeginConnect(Main)
  /\ UNCHANGED << notIngest, enabled, active_streams, connection, channel, queue_declared,
                  batch, consecutive_failures, cap, open_handles, opened,
                  captured, published, delay >>

RunGathered ==
  /\ pc[Main] = "gather"
  /\ \A s \in Sources : pc[s] = "done"
  /\ pc' = [pc EXCEPT ![Main] = "closed"]
  /\ connection' = IF connection = "open" THEN "closed" ELSE connection
  /\ UNCHANGED << notIngest, enabled, active_streams, channel, queue_declared, attempt,
                  installed, batch, consecutive_failures, cap, open_handles,
                  opened, captured, published, delay >>

\* The operator turns a source off: self.active_streams[url] = False.
Disable(s) ==
  /\ active_streams[s]
  /\ active_streams' = [active_streams EXCEPT ![s] = FALSE]
  /\ UNCHANGED << notIngest, enabled, connection, channel, queue_declared, pc, attempt,
                  installed, batch, consecutive_failures, cap, open_handles,
                  opened, captured, published, delay >>

(***************************************************************************)
(* capture_stream: the head of the outer loop.  An inactive source ends    *)
(* the coroutine; otherwise cv2.VideoCapture(stream.url) makes a new       *)
(* capture object, opened or not; not opened raises RuntimeError.          *)
(***************************************************************************)
\* A loop that never looks at the flag.
AlwaysActive(s) == TRUE

\* while self.active_streams[stream.url]
Active(s) == active_streams[s]

LoopExit(s) ==
  /\ pc[s] = "top"
  /\ ~Active(s)
  /\ pc' = [pc EXCEPT ![s] = "done"]
  /\ UNCHANGED << notIngest, enabled, active_streams, connection, channel, queue_declared,
                  attempt, installed, batch, consecutive_failures, cap,
                  open_handles, opened, captured, published, delay >>

OpenOk(s) ==
  /\ pc[s] = "top"
  /\ Active(s)
  /\ opened' = [opened EXCEPT ![s] = TRUE]
  /\ cap' = [cap EXCEPT ![s] = "open"]
  /\ open_handles' = [open_handles EXCEPT ![s] = @ + 1]
  /\ pc' = [pc EXCEPT ![s] = "sample"]
  /\ UNCHANGED << notIngest, enabled, active_streams, connection, channel, queue_declared,
                  attempt, installed, batch, consecutive_failures, captured,
                  published, delay >>

OpenFails(s) ==
  /\ pc[s] = "top"
  /\ Active(s)
  /\ opened' = [opened EXCEPT ![s] = TRUE]
  /\ HandleError(s, [cap |-> "closed", n |-> open_handles[s]])
  /\ UNCHANGED << notIngest, enabled, active_streams, connection, channel, queue_declared,
                  attempt, installed, batch, captured, published >>

(***************************************************************************)
(* capture_stream: one pass of the inner loop in which the sampling        *)
(* interval has elapsed (a pass in which it has not changes nothing).      *)
(***************************************************************************)
\* The inner loop ends because the source is no longer active; the finally
\* clause releases the handle.
InnerExit(s) ==
  /\ pc[s] = "sample"
  /\ ~Active(s)
  /\ cap' = [cap EXCEPT ![s] = release([cap |-> cap[s], n |-> open_handles[s]]).cap]
  /\ open_handles' =
       [open_handles EXCEPT ![s] = release([cap |-> cap[s], n |-> open_handles[s]]).n]
  /\ pc' = [pc EXCEPT ![s] = "top"]
  /\ UNCHANGED << notIngest, enabled, active_streams, connection, channel, queue_declared,
                  attempt, installed, batch, consecutive_failures, opened,
                  captured, published, delay >>

\* cap.read() or cv2.imencode returns ret = False: RuntimeError.
ReadFails(s) ==
  /\ pc[s] = "sample"
  /\ Active(s)
  /\ HandleError(s, [cap |-> cap[s], n |-> open_handles[s]])
  /\ UNCHANGED << notIngest, enabled, active_streams, connection, channel, queue_declared,
                  attempt, installed, batch, opened, captured, published >>

\* A frame is read, encoded and appended.  With len(batch) >= batch_size
\* publish_batch is called: without a channel it logs and returns at once
\* (the caller then clears the batch and resets the counter); with one it
\* awaits the publish.
ReadOk(s) ==
  /\ pc[s] = "sample"
  /\ Active(s)
  /\ SumOver(captured, Sources) < MaxFrames
  /\ captured' = [captured EXCEPT ![s] = @ + 1]
  /\ LET b == AppendFrame(batch[s], captured[s] + 1) IN
       IF Len(b) >= BatchSize
         THEN IF channel = "none"
                THEN /\ batch' = [batch EXCEPT ![s] = << >>]
                     /\ consecutive_failures' = [consecutive_failures EXCEPT ![s] = 0]
                     /\ UNCHANGED pc
                ELSE /\ batch' = [batch EXCEPT ![s] = b]
                     /\ pc' = [pc EXCEPT ![s] = "publishing"]
                     /\ UNCHANGED consecutive_failures
         ELSE /\ batch' = [batch EXCEPT ![s] = b]
              /\ UNCHANGED << pc, consecutive_failures >>
  /\ UNCHANGED << notIngest, enabled, active_streams, connection, channel, queue_declared,
                  attempt, installed, cap, open_handles, opened, published, delay >>

(***************************************************************************)
(* publish_batch: await self.channel.default_exchange.publish(...)         *)
(***************************************************************************)
\* The broker accepted the message; back in capture_stream the batch is
\* cleared and the counter reset.
PublishOk(s) ==
  /\ pc[s] = "publishing"
  /\ published' = [published EXCEPT ![s] = Append(@, batch[s])]
  /\ batch' = [batch EXCEPT ![s] = << >>]
  /\ consecutive_failures' = [consecutive_failures EXCEPT ![s] = 0]
  /\ pc' = [pc EXCEPT ![s] = "sample"]
  /\ UNCHANGED << notIngest, enabled, active_streams, connection, channel, queue_declared,
                  attempt, installed, cap, open_handles, opened, captured, delay >>

\* The publish raised: the except clause logs, sets self.channel = None and
\* awaits self.connect().
PublishFails(s) ==
  /\ pc[s] = "publishing"
  /\ channel' = "none"
  /\ BeginConnect(s)
  /\ UNCHANGED << notIngest, enabled, active_streams, connection, queue_declared, batch,
                  consecutive_failures, cap, open_handles, opened, captured,
                  published, delay >>

(***************************************************************************)
(* capture_stream: the rest of the except clause, and the finally clause.  *)
(***************************************************************************)
\* asyncio.sleep(30) is over: the counter is reset, the handle released,
\* and the coroutine sleeps min(30, 2 ** 0).
CooldownEnds(s) ==
  /\ pc[s] = "cooldown"
  /\ consecutive_failures' = [consecutive_failures EXCEPT ![s] = 0]
  /\ cap' = [cap EXCEPT ![s] = release([cap |-> cap[s], n |-> open_handles[s]]).cap]
  /\ open_handles' =
       [open_handles EXCEPT ![s] = release([cap |-> cap[s], n |-> open_handles[s]]).n]
  /\ delay' = [delay EXCEPT ![s] = Min(BACKOFF_CAP, 2 ^ 0)]
  /\ pc' = [pc EXCEPT ![s] = "backoff"]
  /\ UNCHANGED << notIngest, enabled, active_streams, connection, channel, queue_declared,
                  attempt, installed, batch, opened, captured, published >>

\* The backoff sleep is over: continue, through the finally clause, which
\* releases the handle once more.
BackoffEnds(s) ==
  /\ pc[s] = "backoff"
  /\ cap' = [cap EXCEPT ![s] = release([cap |-> cap[s], n |-> open_handles[s]]).cap]
  /\ open_handles' =
       [open_handles EXCEPT ![s] = release([cap |-> cap[s], n |-> open_handles[s]]).n]
  /\ delay' = [delay EXCEPT ![s] = 0]
  /\ pc' = [pc EXCEPT ![s] = "top"]
  /\ UNCHANGED << notIngest, enabled, active_streams, connection, channel, queue_declared,
                  attempt, installed, batch, consecutive_failures, opened,
                  captured, published >>

IngestNext ==
  \/ RunStart
  \/ RunGathered
  \/ \E p \in Procs : ConnectOpen(p) \/ ConnectChannel(p) \/ ConnectDeclare(p)
  \/ \E s \in Sources :
       \/ Disable(s)
       \/ LoopExit(s) \/ OpenOk(s) \/ OpenFails(s)
       \/ InnerExit(s) \/ ReadFails(s) \/ ReadOk(s)
       \/ PublishOk(s) \/ PublishFails(s)
       \/ CooldownEnds(s) \/ BackoffEnds(s)

\* The steps of one coroutine: the event loop resumes every coroutine that
\* is ready, every sleep ends and every broker call returns or raises.
ProcStep(p) ==
  \/ ConnectOpen(p) \/ ConnectChannel(p) \/ ConnectDeclare(p)
  \/ p = Main /\ (RunStart \/ RunGathered)
  \/ /\ p \in Sources
     /\ \/ LoopExit(p) \/ InnerExit(p)
        \/ PublishOk(p) \/ PublishFails(p)
        \/ CooldownEnds(p) \/ BackoffEnds(p)

(***************************************************************************)
(* Claims about the ingestion stage, checked under Spec.                   *)
(***************************************************************************)
ErrorStates == {"cooldown", "backoff"}

C2_PublishFailureSurfaced ==
  [][\A s \in Sources :
       /\ (pc[s] = "publishing" /\ pc'[s] \in ConnStates) => attempt'[s] = 1
       /\ (pc[s] \in ConnStates /\ pc'[s] \notin ConnStates) => pc'[s] \in ErrorStates
    ]_vars

\* C4: every read, decode or open error increments the source's
\* consecutive_failures; the counter is always in 0..3 and is 3 exactly in
\* the cooldown, which sleeps 30; the cooldown ends with the counter reset to
\* 0, and after the backoff the loop is back at its head, where an active
\* source is opened again.
C4_FailureCounter ==
  /\ [](\A s \in Sources :
          /\ consecutive_failures[s] \in 0..3
          /\ (consecutive_failures[s] = 3 <=> pc[s] = "cooldown")
          /\ (pc[s] = "cooldown" => delay[s] = 30))
  /\ [][\A s \in Sources :
          /\ (pc[s] \notin ErrorStates /\ pc'[s] \in ErrorStates) =>
               consecutive_failures'[s] = consecutive_failures[s] + 1
          /\ (pc[s] = "cooldown" /\ pc'[s] # "cooldown") =>
               consecutive_failures'[s] = 0 /\ pc'[s] = "backoff"
          /\ (pc[s] = "backoff" /\ pc'[s] # "backoff") => pc'[s] = "top"
          /\ (pc[s] = "top" /\ pc'[s] # "top" /\ active_streams[s]) => opened'[s]
       ]_vars

\* C4 witness: a source has left the cooldown with its counter reset and
\* waits to open again.
C4_Witness ==
  \E s \in Sources :
    pc[s] = "backoff" /\ delay[s] = 1 /\ consecutive_failures[s] = 0 /\ opened[s]

\* C5: a source has at most one open capture handle, and none when the loop
\* is at its head (the next open attempt) or has exited.
C5_HandleReleased ==
  \A s \in Sources :
    /\ open_handles[s] <= 1
    /\ (cap[s] = "open" <=> open_handles[s] = 1)
    /\ (pc[s] \in {"idle", "top", "done"} => open_handles[s] = 0)

\* C5 witness: a source that was opened and read, then failed, is at the
\* head of the loop again with the handle released.
C5_Witness ==
  \E s \in Sources :
    /\ pc[s] = "top" /\ active_streams[s]
    /\ captured[s] >= 1 /\ consecutive_failures[s] >= 1
    /\ cap[s] = "closed"

\* C6: every published batch holds exactly batch_size frames, and when a
\* publish_batch call is over the buffer is empty and the failure counter
\* is 0.
C6_BatchesExactlyBatchSize ==
  /\ [](\A s \in Sources : \A i \in 1..Len(published[s]) :
          Len(published[s][i]) = BatchSize)
  /\ [][\A s \in Sources :
          (pc[s] \in ConnStates \cup {"publishing"}
             /\ pc'[s] \notin ConnStates \cup {"publishing"}) =>
            batch'[s] = << >> /\ consecutive_failures'[s] = 0
       ]_vars

\* C7: the frames of the batches published for a source, concatenated, are
\* captured frames of that source in strictly increasing capture order.
C7_PublishedInCaptureOrder ==
  \A s \in Sources :
    LET f == Flatten(published[s]) IN
      \A i \in 1..Len(f) :
        /\ f[i] \in 1..captured[s]
        /\ (i < Len(f) => f[i] < f[i + 1])

\* C7 witness: a published batch holds frames captured before and after a
\* failure and re-open of the source (it outgrew batch_size meanwhile).
C7_Witness ==
  \E s \in Sources : \E i \in 1..Len(published[s]) :
    Len(published[s][i]) > BatchSize

\* C8: a source whose enabled flag is false is never opened and has no
\* frame captured and no batch published.
C8_DisabledSourceNeverOpened ==
  \A s \in Sources :
    ~enabled[s] => ~opened[s] /\ captured[s] = 0 /\ published[s] = << >>

\* C21: a connect() call that ends with the error out of its last attempt
\* is fatal to the stage, at startup and as the reconnect after a publish
\* failure: run() has then failed, and the source's loop does not go on.
C21_ExhaustedConnectIsFatal ==
  [][\A p \in Procs :
       (pc[p] \in ConnStates /\ pc'[p] \notin ConnStates \cup {"gather", "sample"}) =>
         pc'[Main] = "failed" /\ (p \in Sources => pc'[p] \notin ErrorStates)
    ]_vars

\* C22: while one source's task has invalidated the channel and is in its
\* reconnect, a batch that another source completes is still handed to the
\* broker: the other task does not find the channel missing and drop it.
C22_ChannelNeverSeenInvalid ==
  [][\A s \in Sources :
       (/\ pc[s] = "sample"
        /\ captured'[s] = captured[s] + 1
        /\ Len(batch[s]) + 1 >= BatchSize
        /\ \E p \in Sources \ {s} : pc[p] \in ConnStates) =>
         pc'[s] = "publishing" /\ batch'[s] # << >>
    ]_vars

\* C26: every capture failure is followed, before the next open attempt, by
\* a backoff sleep of min(30, 2^c), c being the value the counter reached
\* by that failure: 2, 4, and 8 after the third, whose cooldown comes first.
C26_BackoffAfterEveryFailure ==
  [][\A s \in Sources :
       (pc[s] # "backoff" /\ pc'[s] = "backoff") =>
         LET c == IF pc[s] = "cooldown" THEN consecutive_failures[s]
                                        ELSE consecutive_failures'[s]
         IN delay'[s] = Min(30, 2 ^ c)
    ]_vars

\* C31: a source enters the cooldown only after three failures with no
\* successful frame read of the source in between: every successful frame
\* read, one that does not complete a batch included, ends the run of
\* consecutive failures, that is, leaves the source's failure counter at 0.
C31_ReadEndsFailureRun ==
  [][\A s \in Sources :
       (pc[s] = "sample" /\ captured'[s] = captured[s] + 1
        /\ Len(batch[s]) + 1 < BatchSize) =>
         consecutive_failures'[s] = 0]_vars

\* C32: while a source waits in the cooldown or in the backoff delay that
\* follow a failure, its capture handle has been released already.
C32_NoHandleHeldWhileWaiting ==
  \A s \in Sources : pc[s] \in ErrorStates => open_handles[s] = 0 /\ cap[s] # "open"

\* C33: the stage recovers from a broker outage.  Every batch handed to
\* publish_batch while no reconnect is under way is given to the broker, and
\* the broker call either publishes it or starts a reconnect: after a
\* reconnect that failed, completed batches are not discarded without a
\* new attempt to connect.
C33_BatchPublishedOrReconnect ==
  [][\A s \in Sources :
       /\ (/\ pc[s] = "sample"
           /\ captured'[s] = captured[s] + 1
           /\ Len(batch[s]) + 1 >= BatchSize
           /\ \A p \in Procs : pc[p] \notin ConnStates) =>
            pc'[s] = "publishing"
       /\ (pc[s] = "publishing" /\ pc'[s] # "publishing") =>
            \/ published'[s] = Append(published[s], batch[s])
            \/ pc'[s] = "conn_open" /\ attempt'[s] = 1
    ]_vars

Stages == {"detection", "ocr", "tracking", "storage"}
\* The deliveries followed; their handlers may be in progress at once.
Deliveries == {"m1", "m2"}
\* Items of one message body.
MaxItems == 2
\* Connections the broker lets the stage have open.
MaxConns == 2
\* DetectionService.batch_size, from the environment (BATCH_SIZE).
InferBatchSize == 1

(***************************************************************************)
(* What an item of a message does in the handler:                          *)
(*   "skip"    it is passed over before any work (a frame that does not    *)
(*             decode, a detection without plate_crop, an empty bbox);     *)
(*   "nothing" it is processed and yields no result;                       *)
(*   "result"  it is processed and yields a result;                        *)
(*   "error"   processing it raises.                                       *)
(***************************************************************************)
ItemKinds == {"skip", "nothing", "result", "error"}

RECURSIVE SeqsUpTo(_, _)
SeqsUpTo(S, n) ==
  IF n = 0 THEN {<< >>}
  ELSE LET shorter == SeqsUpTo(S, n - 1) IN
         shorter \cup {Append(q, x) : q \in {r \in shorter : Len(r) = n - 1}, x \in S}

\* A message body: not JSON at all, or a list of items.
Messages ==
  {[malformed |-> TRUE, items |-> << >>]}
    \cup {[malformed |-> FALSE, items |-> q] : q \in SeqsUpTo(ItemKinds, MaxItems)}

NoMessage == [malformed |-> FALSE, items |-> << >>]

Count(q, k) == Cardinality({i \in 1..Len(q) : q[i] = k})

\* No delivery in progress; run() has connected (the first connection) and
\* registered the consumer on self.queue_in.
HandlerIdle ==
  /\ b_open = 1
  /\ b_channel = 1
  /\ b_consumer = 1
  /\ h_pc = [d \in Deliveries |-> "free"]
  /\ h_msg = [d \in Deliveries |-> NoMessage]
  /\ h_pos = [d \in Deliveries |-> 0]
  /\ h_pending = [d \in Deliveries |-> 0]
  /\ h_out = [d \in Deliveries |-> << >>]
  /\ h_inferred = [d \in Deliveries |-> << >>]
  /\ h_attempt = [d \in Deliveries |-> 0]
  /\ h_err = [d \in Deliveries |-> "none"]
  /\ h_acks = [d \in Deliveries |-> 0]
  /\ h_rejects = [d \in Deliveries |-> 0]

HandlerInit == stage \in Stages /\ HandlerIdle

HandlerQuiet == stage = "detection" /\ HandlerIdle

\* A handler with only its first except clause.
OnlyJsonCaught(err) == err = "json"

\* The except clauses of process_message: json.JSONDecodeError, then
\* Exception, which is every error raised inside the try block.
HandlerCatches(err) == err \in {"json", "processing", "connection"}

(***************************************************************************)
(* The end of `async with message.process():`.  The body returned or its   *)
(* error was caught: the context manager acknowledges.  An error that      *)
(* leaves the body: it rejects the message and re-raises.                  *)
(***************************************************************************)
Finish(d, err) ==
  /\ h_pc' = [h_pc EXCEPT ![d] = "done"]
  /\ h_err' = [h_err EXCEPT ![d] = err]
  /\ IF err = "none" \/ HandlerCatches(err)
       THEN /\ h_acks' = [h_acks EXCEPT ![d] = @ + 1]
            /\ UNCHANGED h_rejects
       ELSE /\ h_rejects' = [h_rejects EXCEPT ![d] = @ + 1]
            /\ UNCHANGED h_acks

IsFrame(x) == x # "skip"

RECURSIVE DecodeLoop(_, _, _)
\* A decode loop that gives up at the first frame that does not decode.
DecodeLoopAborting(items, i, acc) ==
  IF i > Len(items) \/ ~IsFrame(items[i])
    THEN acc
    ELSE DecodeLoop(items, i + 1, Append(acc, i))

\* DetectionService.process_message, the loop over batch["frames"] from
\* item i on: a frame that decodes is appended to frames, one that does not
\* is logged and passed over.  The frames are named by their position in
\* the message.
DecodeLoop(items, i, acc) ==
  IF i > Len(items)
    THEN acc
    ELSE DecodeLoop(items, i + 1, IF IsFrame(items[i]) THEN Append(acc, i) ELSE acc)

\* The positions of the frames that decoded, in the order of `frames`.
FramePositions(m) == DecodeLoop(m.items, 1, << >>)

\* DetectionService.process_message: the frames that decoded.
Frames(m) == [k \in 1..Len(FramePositions(m)) |-> m.items[FramePositions(m)[k]]]

(***************************************************************************)
(* DetectionService.process_message from sub-batch `pos` on, up to the     *)
(* next await: inference or process_detections raising ends the try block; *)
(* a sub-batch with detections is published; one without is passed.        *)
(***************************************************************************)
RECURSIVE DetectionRun(_, _)
DetectionRun(frames, pos) ==
  IF pos > Len(frames)
    THEN [next |-> "finish", err |-> "none", pos |-> pos, n |-> 0,
          seen |-> Len(frames)]
    ELSE LET last == Min(pos + InferBatchSize - 1, Len(frames))
             sub == SubSeq(frames, pos, last)
         IN IF Count(sub, "error") > 0
              THEN [next |-> "finish", err |-> "processing", pos |-> pos, n |-> 0,
                    seen |-> last]
              ELSE IF Count(sub, "result") > 0
                THEN [next |-> "publishing", err |-> "none",
                      pos |-> pos + InferBatchSize, n |-> Count(sub, "result"),
                      seen |-> last]
                ELSE DetectionRun(frames, pos + InferBatchSize)

(***************************************************************************)
(* OCRService / VehicleTracker process_message up to the publish: every    *)
(* item is handled inside its own try (an error skips the item); the       *)
(* results, if any, are published as one message.                          *)
(***************************************************************************)
ItemLoopRun(m) ==
  IF Count(m.items, "result") > 0
    THEN [next |-> "publishing", err |-> "none", pos |-> Len(m.items) + 1,
          n |-> Count(m.items, "result"), seen |-> 0]
    ELSE [next |-> "finish", err |-> "none", pos |-> Len(m.items) + 1, n |-> 0,
          seen |-> 0]

\* The handler of `stage` from position pos of message m to its next await.
Run(st, m, pos) ==
  IF m.malformed
    THEN [next |-> "finish", err |-> "json", pos |-> pos, n |-> 0, seen |-> 0]
    ELSE IF st = "detection" THEN DetectionRun(Frames(m), pos)
    ELSE IF st \in {"ocr", "tracking"}
      THEN IF pos > Len(m.items)
             THEN [next |-> "finish", err |-> "none", pos |-> pos, n |-> 0,
                   seen |-> 0]
             ELSE ItemLoopRun(m)
    ELSE \* storage: every event awaits its blob and record writes
      IF pos > Len(m.items)
        THEN [next |-> "finish", err |-> "none", pos |-> pos, n |-> 0, seen |-> 0]
        ELSE [next |-> "storing", err |-> "none", pos |-> pos, n |-> 0, seen |-> 0]

\* The handler of delivery d goes on from position pos of its message.
Continue(d, pos) ==
  LET r == Run(stage, h_msg[d], pos) IN
    /\ h_pos' = [h_pos EXCEPT ![d] = r.pos]
    /\ h_pending' = [h_pending EXCEPT ![d] = r.n]
    /\ h_inferred' =
         [h_inferred EXCEPT ![d] =
            IF r.seen > Len(@) THEN SubSeq(FramePositions(h_msg[d]), 1, r.seen) ELSE @]
    /\ IF r.next = "finish"
         THEN Finish(d, r.err)
         ELSE /\ h_pc' = [h_pc EXCEPT ![d] = r.next]
              /\ UNCHANGED << h_err, h_acks, h_rejects >>

\* The items a stage's messages are made of (a storage event is stored or
\* its write fails).
StageMessages(st) ==
  IF st = "storage"
    THEN {m \in Messages : \A i \in 1..Len(m.items) : m.items[i] \in {"result", "error"}}
    ELSE Messages

\* The broker delivers a message to the consumer callback.
Deliver(d, m) ==
  /\ h_pc[d] = "free"
  /\ m \in StageMessages(stage)
  /\ h_pc' = [h_pc EXCEPT ![d] = "handling"]
  /\ h_msg' = [h_msg EXCEPT ![d] = m]
  /\ h_pos' = [h_pos EXCEPT ![d] = 1]
  /\ h_pending' = [h_pending EXCEPT ![d] = 0]
  /\ h_out' = [h_out EXCEPT ![d] = << >>]
  /\ h_inferred' = [h_inferred EXCEPT ![d] = << >>]
  /\ h_err' = [h_err EXCEPT ![d] = "none"]
  /\ h_acks' = [h_acks EXCEPT ![d] = 0]
  /\ h_rejects' = [h_rejects EXCEPT ![d] = 0]
  /\ UNCHANGED << notHandler, stage, h_attempt, b_open, b_channel, b_consumer >>

\* process_message runs from json.loads to its first await.
Handle(d) ==
  /\ h_pc[d] = "handling"
  /\ Continue(d, 1)
  /\ UNCHANGED << notHandler, stage, h_msg, h_out, h_attempt, b_open, b_channel,
                  b_consumer >>

\* publish_detections / publish_results / publish_events: the broker took
\* the message; the handler goes on.
HandlerPublishOk(d) ==
  /\ h_pc[d] = "publishing"
  /\ h_out' = [h_out EXCEPT ![d] = Append(@, h_pending[d])]
  /\ Continue(d, h_pos[d])
  /\ UNCHANGED << notHandler, stage, h_msg, h_attempt, b_open, b_channel,
                  b_consumer >>

\* The publish raised: the except clause logs and awaits self.connect().
HandlerPublishFails(d) ==
  /\ h_pc[d] = "publishing"
  /\ h_pc' = [h_pc EXCEPT ![d] = "connecting"]
  /\ h_attempt' = [h_attempt EXCEPT ![d] = 1]
  /\ UNCHANGED << notHandler, stage, h_msg, h_pos, h_pending, h_out,
                  h_inferred, h_err, h_acks, h_rejects, b_open, b_channel,
                  b_consumer >>

\* An attempt of connect() succeeds: connect_robust made a new connection,
\* which self.connection now names, and self.channel and the queues are of
\* that connection; the one self.connection named before is not closed.
\* The publish method returns (nothing was published) and the handler goes
\* on.
HandlerConnectOk(d) ==
  /\ h_pc[d] = "connecting"
  /\ b_open < MaxConns
  /\ b_open' = b_open + 1
  /\ b_channel' = b_open + 1
  /\ h_attempt' = [h_attempt EXCEPT ![d] = 0]
  /\ Continue(d, h_pos[d])
  /\ UNCHANGED << notHandler, stage, h_msg, h_out, b_consumer >>

\* The awaits of connect() an attempt may fail in.
FailPoints == {"connect_robust", "channel", "declare_queue"}

\* An attempt of connect() fails: tenacity starts the next, or re-raises
\* after the last, and the error reaches process_message's try block.  The
\* assignments made before the failing await stay.
HandlerConnectFails(d, at) ==
  /\ h_pc[d] = "connecting"
  /\ at \in FailPoints
  /\ IF at = "connect_robust"
       THEN UNCHANGED << b_open, b_channel >>
       ELSE /\ b_open < MaxConns
            /\ b_open' = b_open + 1
            /\ b_channel' = IF at = "channel" THEN b_channel ELSE b_open + 1
  /\ IF h_attempt[d] < stop_after_attempt
       THEN /\ h_attempt' = [h_attempt EXCEPT ![d] = @ + 1]
            /\ UNCHANGED << h_pc, h_err, h_acks, h_rejects >>
       ELSE /\ h_attempt' = [h_attempt EXCEPT ![d] = 0]
            /\ Finish(d, "connection")
  /\ UNCHANGED << notHandler, stage, h_msg, h_pos, h_pending, h_out,
                  h_inferred, b_consumer >>

\* StorageService.process_message: the writes of one event end; a failed
\* write is caught by the event's own try, and the loop goes on.
StoreEvent(d) ==
  /\ h_pc[d] = "storing"
  /\ Continue(d, h_pos[d] + 1)
  /\ UNCHANGED << notHandler, stage, h_msg, h_out, h_attempt, b_open, b_channel,
                  b_consumer >>

HandlerNext ==
  \/ \E d \in Deliveries, m \in Messages : Deliver(d, m)
  \/ \E d \in Deliveries :
       \/ Handle(d)
       \/ HandlerPublishOk(d) \/ HandlerPublishFails(d)
       \/ HandlerConnectOk(d)
       \/ \E at \in FailPoints : HandlerConnectFails(d, at)
       \/ StoreEvent(d)

(***************************************************************************)
(* Claims about the message handlers, checked under SpecHandlers.          *)
(***************************************************************************)
\* C3: in the detection, recognition, tracking and storage stages a
\* delivered message is acknowledged exactly once, when its handler
\* returns, and never rejected or left unacknowledged: also when the body
\* is malformed, an item fails, or processing raises.
C3_AckedExactlyOnce ==
  \A d \in Deliveries :
    /\ (h_pc[d] = "done" => h_acks[d] = 1 /\ h_rejects[d] = 0)
    /\ (h_pc[d] # "done" => h_acks[d] = 0 /\ h_rejects[d] = 0)

\* C3 witness: a handler whose reconnect ran out of attempts has returned,
\* after an earlier part of the same message was published.
C3_Witness ==
  \E d \in Deliveries :
    /\ h_pc[d] = "done" /\ h_err[d] = "connection" /\ h_acks[d] = 1
    /\ Len(h_out[d]) >= 1

\* C12: in the detection stage the frames passed to the detector are
\* frames that decoded, in their order in the message; a frame that does
\* not decode never keeps a decodable frame before or after it from being
\* passed; a handler that ended without an error has passed every decodable
\* frame, and one that ended early did so because inference or a reconnect
\* failed, not because of an undecodable frame.
C12_UndecodableFrameSkipped ==
  \A d \in Deliveries :
    LET items == h_msg[d].items
        seen == h_inferred[d]
    IN /\ \A k \in 1..Len(seen) :
            /\ seen[k] \in 1..Len(items)
            /\ items[seen[k]] # "skip"
            /\ (k < Len(seen) => seen[k] < seen[k + 1])
            /\ \A j \in 1..seen[k] :
                 items[j] # "skip" => \E l \in 1..k : seen[l] = j
       /\ (stage = "detection" /\ h_pc[d] = "done") =>
            \/ h_err[d] = "none"
                 /\ \A j \in 1..Len(items) :
                      items[j] # "skip" => \E l \in 1..Len(seen) : seen[l] = j
            \/ h_err[d] = "json" /\ h_msg[d].malformed
            \/ h_err[d] = "processing"
                 /\ \E l \in 1..Len(seen) : items[seen[l]] = "error"
            \/ h_err[d] = "connection" /\ h_pending[d] >= 1

\* C12 witness: a detection handler has returned without an error, the
\* first frame of its message did not decode and a later one was passed to
\* the detector.
C12_Witness ==
  \E d \in Deliveries :
    /\ stage = "detection" /\ h_pc[d] = "done" /\ h_err[d] = "none"
    /\ Len(h_msg[d].items) >= 2
    /\ h_msg[d].items[1] = "skip"
    /\ Len(h_inferred[d]) >= 1

\* C20: a stage has at most one open broker connection, and the channel
\* it publishes on belongs to the connection its consumer is registered on.
C20_OneConnection ==
  /\ b_open <= 1
  /\ b_channel = b_consumer

\* C11: for one input message a stage publishes at most one output
\* message, and none that is empty.
C11_AtMostOneOutputMessage ==
  \A d \in Deliveries :
    /\ Len(h_out[d]) <= 1
    /\ \A i \in 1..Len(h_out[d]) : h_out[d][i] >= 1

(***************************************************************************)
(* DetectionService.process_detections and OCRService.process_ocr.         *)
(* Confidences are in tenths: 0.5 is 5.  float(score) widens the           *)
(* detector's number and json.dumps writes a float so that it reads back   *)
(* the same, so a confidence is carried as the number it is.               *)
(***************************************************************************)
\* CONFIDENCE_THRESHOLD of the detection service, "0.5".
DET_CONFIDENCE_THRESHOLD == 5
\* CONFIDENCE_THRESHOLD of the ocr service, "0.6".
OCR_CONFIDENCE_THRESHOLD == 6
\* MAX_RETRIES of the ocr service.
MAX_RETRIES == 3
\* if int(class_id) == 1:  # Assuming 1 is license plate class
PLATE_CLASS == 1

\* Boxes of one frame.
MaxBoxes == 2

\* The rows of results.boxes.data: a score, a class id, and whether the
\* crop of the box can be encoded (cv2.imencode raises on an empty crop).
Boxes ==
  [score : {4, 5, 6}, class_id : {0}, encodable : {TRUE}]
    \cup [score : {4, 5, 6}, class_id : {PLATE_CLASS}, encodable : BOOLEAN]

\* One Detection: bbox left out, plate_crop "jpeg" (the hex of the crop) or
\* "None".
NewDetection(det) ==
  [confidence |-> det.score,
   class_id   |-> det.class_id,
   plate_crop |-> IF det.class_id = PLATE_CLASS THEN "jpeg" ELSE "None"]

\* A filter that also drops a score equal to the threshold.
AtOrBelowThreshold(score) == score <= DET_CONFIDENCE_THRESHOLD

\* if score < CONFIDENCE_THRESHOLD: continue
BelowThreshold(score) == score < DET_CONFIDENCE_THRESHOLD

\* The for loop of process_detections over the rows left, detections so far
\* in acc; an error in the loop is re-raised as DetectionError.
RECURSIVE DetectionLoop(_, _)
DetectionLoop(rows, acc) ==
  IF rows = << >>
    THEN [raised |-> FALSE, detections |-> acc]
    ELSE LET det == Head(rows) IN
      IF BelowThreshold(det.score)
        THEN DetectionLoop(Tail(rows), acc)
        ELSE IF det.class_id = PLATE_CLASS /\ ~det.encodable
          THEN [raised |-> TRUE, detections |-> << >>]
          ELSE DetectionLoop(Tail(rows), Append(acc, NewDetection(det)))

process_detections(rows) == DetectionLoop(rows, << >>)

\* What self.ocr.ocr(image, cls=True) may do: raise, find no text, or read
\* a text with a confidence.
Responses ==
  {[kind |-> "raises", confidence |-> 0], [kind |-> "empty", confidence |-> 0]}
    \cup [kind : {"read"}, confidence : {5, 6, 7}]

None == [some |-> FALSE, text |-> 0, confidence |-> 0]

\* A ladder that retries once more.
RetryOnceMore(confidence, retry_count) ==
  confidence < OCR_CONFIDENCE_THRESHOLD /\ retry_count <= MAX_RETRIES

\* if confidence < CONFIDENCE_THRESHOLD and retry_count < MAX_RETRIES:
MayRetry(confidence, retry_count) ==
  confidence < OCR_CONFIDENCE_THRESHOLD /\ retry_count < MAX_RETRIES

\* The preprocessing applied before the recursive call, by retry_count.
Reprocess(image, retry_count) ==
  IF retry_count = 1 THEN "binarized"
  ELSE IF retry_count = 2 THEN "dilated"
  ELSE image

InferInit ==
  /\ d_boxes = << >>
  /\ d_out = [raised |-> FALSE, detections |-> << >>]
  /\ o_pc = "idle"
  /\ o_retry = 0
  /\ o_image = "none"
  /\ o_calls = << >>
  /\ o_images = << >>
  /\ o_result = None
  /\ o_forwarded = None

\* process_message hands one frame's results to process_detections; the
\* frame followed is the first one that has boxes.
Detect(rows) ==
  /\ d_boxes = << >>
  /\ d_boxes' = rows
  /\ d_out' = process_detections(rows)
  /\ UNCHANGED << notInfer, stage, o_pc, o_retry, o_image, o_calls, o_images,
                  o_result, o_forwarded >>

\* process_message: processed_img = self.preprocess_image(plate_crop), then
\* await self.process_ocr(processed_img) with retry_count = 0.
OcrStart ==
  /\ o_pc = "idle"
  /\ o_pc' = "calling"
  /\ o_retry' = 0
  /\ o_image' = "enhanced"
  /\ o_calls' = << >>
  /\ o_images' = << >>
  /\ o_result' = None
  /\ UNCHANGED << notInfer, stage, d_boxes, d_out, o_forwarded >>

\* One call of process_ocr: the inference, and then None (nothing read, or
\* an exception), the recursive call, or the text and confidence read.
OcrInfer(r) ==
  /\ o_pc = "calling"
  /\ o_calls' = Append(o_calls, r)
  /\ o_images' = Append(o_images, o_image)
  /\ IF r.kind # "read"
       THEN /\ o_result' = None
            /\ o_pc' = "returned"
            /\ UNCHANGED << o_retry, o_image >>
       ELSE IF MayRetry(r.confidence, o_retry)
         THEN /\ o_image' = Reprocess(o_image, o_retry)
              /\ o_retry' = o_retry + 1
              /\ UNCHANGED << o_pc, o_result >>
         ELSE /\ o_result' =
                   IF r.confidence >= OCR_CONFIDENCE_THRESHOLD
                     THEN [some |-> TRUE, text |-> Len(o_calls) + 1,
                           confidence |-> r.confidence]
                     ELSE None
              /\ o_pc' = "returned"
              /\ UNCHANGED << o_retry, o_image >>
  /\ UNCHANGED << notInfer, stage, d_boxes, d_out, o_forwarded >>

\* process_message: a result whose text passes validate_plate_format is
\* appended to the results; anything else counts as a failed read.
OcrForward(valid) ==
  /\ o_pc = "returned"
  /\ o_pc' = "idle"
  /\ o_forwarded' = IF o_result.some /\ valid THEN o_result ELSE None
  /\ UNCHANGED << notInfer, stage, d_boxes, d_out, o_retry, o_image, o_calls,
                  o_images, o_result >>

InferNext ==
  \/ \E rows \in SeqsUpTo(Boxes, MaxBoxes) : Detect(rows)
  \/ OcrStart
  \/ \E r \in Responses : OcrInfer(r)
  \/ \E valid \in BOOLEAN : OcrForward(valid)

(***************************************************************************)
(* Claims about the inference steps, checked under SpecInfer.              *)
(***************************************************************************)
\* The boxes of a frame whose score is not below the detection threshold.
AtOrAbove(rows) ==
  SelectSeq(rows, LAMBDA det : det.score >= DET_CONFIDENCE_THRESHOLD)

\* C9: of a frame that was processed, the detection output holds exactly the
\* boxes whose score is at or above the threshold, in order, each with its
\* confidence unchanged, and a detection carries a crop only if its class is
\* the plate class; the recognition stage never returns or forwards a
\* result whose confidence is below its threshold.
C9_ConfidenceFiltering ==
  /\ ~d_out.raised =>
       /\ Len(d_out.detections) = Len(AtOrAbove(d_boxes))
       /\ \A i \in 1..Len(d_out.detections) :
            /\ d_out.detections[i].confidence = AtOrAbove(d_boxes)[i].score
            /\ d_out.detections[i].class_id = AtOrAbove(d_boxes)[i].class_id
            /\ d_out.detections[i].confidence >= DET_CONFIDENCE_THRESHOLD
            /\ (d_out.detections[i].plate_crop # "None"
                  => d_out.detections[i].class_id = 1)
  /\ o_result.some => o_result.confidence >= OCR_CONFIDENCE_THRESHOLD
  /\ o_forwarded.some => o_forwarded.confidence >= OCR_CONFIDENCE_THRESHOLD

\* C9 witness: a frame with one box below the threshold and one plate box
\* exactly at it was processed and only the second is in the output, with
\* its crop; and a read at the recognition threshold was forwarded after a
\* read below it was not.
C9_Witness ==
  /\ ~d_out.raised
  /\ Len(d_boxes) = 2
  /\ d_boxes[1].score < DET_CONFIDENCE_THRESHOLD
  /\ d_boxes[2].score = DET_CONFIDENCE_THRESHOLD
  /\ d_boxes[2].class_id = 1
  /\ Len(d_out.detections) = 1
  /\ d_out.detections[1].plate_crop = "jpeg"
  /\ o_forwarded.some
  /\ o_forwarded.confidence = OCR_CONFIDENCE_THRESHOLD
  /\ Len(o_calls) = 2
  /\ o_calls[1].confidence < OCR_CONFIDENCE_THRESHOLD

\* C10: process_ocr makes at most MAX_RETRIES + 1 inference calls for an
\* item and has returned after the last of them; every call but the last
\* read a text with a confidence below the threshold, so no call follows a
\* read at or above it; a last read at or above the threshold is returned
\* with its text and confidence; a last read below it happens only when the
\* budget is used up, and then nothing is returned.
C10_RetryLadder ==
  /\ Len(o_calls) <= 3 + 1
  /\ o_pc = "calling" => Len(o_calls) < 3 + 1
  /\ \A i \in 1..(Len(o_calls) - 1) :
       o_calls[i].kind = "read"
         /\ o_calls[i].confidence < OCR_CONFIDENCE_THRESHOLD
  /\ o_pc = "returned" =>
       LET n == Len(o_calls)
           last == o_calls[n]
       IN /\ n >= 1
          /\ (last.kind = "read"
                /\ last.confidence >= OCR_CONFIDENCE_THRESHOLD)
               => o_result = [some |-> TRUE, text |-> n,
                              confidence |-> last.confidence]
          /\ (last.kind = "read"
                /\ last.confidence < OCR_CONFIDENCE_THRESHOLD)
               => n = 3 + 1 /\ o_result = None
          /\ last.kind # "read" => o_result = None

\* C10 witness: the fourth call still read below the threshold and
\* process_ocr returned nothing.
C10_Witness ==
  /\ o_pc = "returned"
  /\ Len(o_calls) = 3 + 1
  /\ o_calls[4].kind = "read"
  /\ o_calls[4].confidence < OCR_CONFIDENCE_THRESHOLD
  /\ o_result = None

\* C27: the first retry of process_ocr runs the inference on the
\* binarized image and the second on the dilated one, and no retry runs it
\* on the image of the attempt before.
C27_RetryReprocesses ==
  /\ Len(o_images) >= 2 => o_images[2] = "binarized"
  /\ Len(o_images) >= 3 => o_images[3] = "dilated"
  /\ \A i \in 2..Len(o_images) : o_images[i] # o_images[i - 1]

(***************************************************************************)
(* The detections queue.  DetectionService.process_message publishes, for  *)
(* a frame with detections, a record that holds them; OCRService           *)
(* .process_message takes the elements of the body one by one.             *)
(***************************************************************************)
\* item.get(key, default)
Get(item, key, default) == IF key \in DOMAIN item THEN item[key] ELSE default

FlowInit ==
  /\ f_pc = "none"
  /\ f_msg = << >>
  /\ f_submitted = << >>

\* detection_data of one frame: {"detections": [d.__dict__ ...],
\* "timestamp": ..., "stream_url": ...}
DetectionData(detections) ==
  [detections |-> detections, timestamp |-> "time", stream_url |-> "url"]

\* The for loop of OCRService.process_message over the elements left:
\* plate_crop = detection.get("plate_crop"); without one the element is
\* passed over, with one it is preprocessed and handed to process_ocr.
RECURSIVE OcrLoop(_, _)
OcrLoop(data, acc) ==
  IF data = << >> THEN acc
  ELSE LET plate_crop == Get(Head(data), "plate_crop", "None") IN
    IF plate_crop = "None"
      THEN OcrLoop(Tail(data), acc)
      ELSE OcrLoop(Tail(data), Append(acc, plate_crop))

\* DetectionService: all_detections of the frame followed, if it is not
\* empty, is published to the detections queue.
FlowPublish ==
  /\ f_pc = "none"
  /\ d_boxes # << >>
  /\ ~d_out.raised
  /\ d_out.detections # << >>
  /\ f_msg' = << DetectionData(d_out.detections) >>
  /\ f_pc' = "queued"
  /\ UNCHANGED << notFlow, f_submitted >>

\* OCRService consumes the message.
FlowConsume ==
  /\ f_pc = "queued"
  /\ f_submitted' = OcrLoop(f_msg, << >>)
  /\ f_pc' = "consumed"
  /\ UNCHANGED << notFlow, f_msg >>

FlowNext ==
  \/ \E rows \in SeqsUpTo(Boxes, MaxBoxes) : Detect(rows)
  \/ FlowPublish
  \/ FlowConsume

\* The plate crops of the detections a message body holds, in order.
RECURSIVE PublishedCrops(_)
PublishedCrops(body) ==
  IF body = << >> THEN << >>
  ELSE LET crops == SelectSeq(Head(body).detections,
                              LAMBDA det : det.plate_crop # "None")
       IN [i \in 1..Len(crops) |-> crops[i].plate_crop] \o PublishedCrops(Tail(body))

\* C25: every plate detection with a crop that the detection stage has
\* published is, once the recognition stage has consumed the message,
\* handed to the recognizer.
C25_PublishedCropsRecognized ==
  f_pc = "consumed" => f_submitted = PublishedCrops(f_msg)

(***************************************************************************)
(* VehicleTracker: process_message, calculate_speed_and_direction and      *)
(* cleanup_old_tracks.  process_message is followed statement by           *)
(* statement; `running` is the coroutine that has the event loop, which it *)
(* gives up only where it awaits.                                          *)
(***************************************************************************)
\* Tracks the associator makes in one behaviour.
MaxTracks == 2
\* Observations handed to the associator in one behaviour.
MaxObs == 7
\* Coordinates of a bbox centre, and timestamps in seconds.
MaxCoord == 1
MaxTime == 1
\* self.track_history[track_id][-5:]
HISTORY_LEN == 5

TrackIds == 1..MaxTracks
Coords == 0..MaxCoord
Times == 0..MaxTime
Positions == [x : Coords, y : Coords, t : Times]

\* The position of the n-th observation of a vehicle that moves one unit a
\* second.
NthPosition(n) == [x |-> n, y |-> 0, t |-> n]

Statuses == {"none", "tentative", "confirmed", "deleted"}

\* What DeepSort.update_tracks may do to a track: the next unused id gets a
\* tentative track; a tentative track is confirmed or deleted; a confirmed
\* track is deleted; ids are not used again.
Advances(old, new) ==
  \A id \in TrackIds :
    \/ new[id] = old[id]
    \/ old[id] = "none" /\ new[id] = "tentative"
         /\ \A j \in TrackIds : j < id => old[j] # "none"
    \/ old[id] = "tentative" /\ new[id] \in {"confirmed", "deleted"}
    \/ old[id] = "confirmed" /\ new[id] = "deleted"

\* The track the one bbox of the call is associated with: a track that is
\* made by the call or confirmed by it is the one; the others, confirmed
\* ones among them, keep the box of their own that the associator predicts.
Matches(old, new, m) ==
  /\ m # 0 => new[m] \in {"tentative", "confirmed"}
  /\ \A id \in TrackIds :
       (old[id] \in {"none", "tentative"} /\ new[id] # old[id] /\ new[id] # "deleted")
         => m = id

\* The tracks that are not deleted.
AliveIds(st) == {id \in TrackIds : st[id] \in {"tentative", "confirmed"}}

\* {t.track_id for t in self.tracker.tracks if t.is_confirmed()}
ConfirmedIds(st) == {id \in TrackIds : st[id] = "confirmed"}

\* The elements of a set of track ids in the order of tracker.tracks.
RECURSIVE InOrder(_)
InOrder(S) ==
  IF S = {} THEN << >>
  ELSE LET m == CHOOSE x \in S : \A y \in S : x <= y
       IN << m >> \o InOrder(S \ {m})

\* A slice that keeps the oldest n positions.
KeepFirst(s, n) == IF Len(s) <= n THEN s ELSE SubSeq(s, 1, n)

\* s[-n:]
LastN(s, n) == IF Len(s) <= n THEN s ELSE SubSeq(s, Len(s) - n + 1, Len(s))

\* calculate_speed_and_direction up to the slice: the entry is made if the
\* id has none, the position is appended, the last 5 are kept.
AppendPosition(hist, id, pos) ==
  LET h0 == IF id \in DOMAIN hist THEN hist[id] ELSE << >>
      h1 == LastN(Append(h0, pos), HISTORY_LEN)
  IN [k \in (DOMAIN hist) \cup {id} |-> IF k = id THEN h1 ELSE hist[k]]

\* np.arctan2 of a ratio in the first quadrant, in thousandths of a degree.
ArctanMilliDeg(dy, dx) ==
  IF dy = dx THEN 45000
  ELSE IF 2 * dy = dx THEN 26565
  ELSE IF dy = 2 * dx THEN 63435
  ELSE IF 3 * dy = dx THEN 18435
  ELSE IF dy = 3 * dx THEN 71565
  ELSE IF 3 * dy = 2 * dx THEN 33690
  ELSE IF 2 * dy = 3 * dx THEN 56310
  ELSE IF 4 * dy = dx THEN 14036
  ELSE IF dy = 4 * dx THEN 75964
  ELSE IF 4 * dy = 3 * dx THEN 36870
  ELSE 53130

Abs(n) == IF n < 0 THEN 0 - n ELSE n

\* angle = np.arctan2(dy, dx) * 180 / np.pi, in thousandths of a degree.
AngleMilliDeg(dy, dx) ==
  IF dx = 0 THEN (IF dy > 0 THEN 90000 ELSE IF dy < 0 THEN 0 - 90000 ELSE 0)
  ELSE IF dy = 0 THEN (IF dx > 0 THEN 0 ELSE 180000)
  ELSE IF dx > 0
    THEN (IF dy > 0 THEN ArctanMilliDeg(dy, dx) ELSE 0 - ArctanMilliDeg(0 - dy, dx))
    ELSE (IF dy > 0 THEN 180000 - ArctanMilliDeg(dy, 0 - dx)
          ELSE ArctanMilliDeg(0 - dy, 0 - dx) - 180000)

\* A first sector that leaves out its upper end.
CardinalOpenAt45(angle) ==
  IF 0 - 45000 <= angle /\ angle < 45000 THEN "E"
  ELSE IF 45000 < angle /\ angle <= 135000 THEN "S"
  ELSE IF 0 - 135000 <= angle /\ angle < 0 - 45000 THEN "N"
  ELSE "W"

\* The if chain that converts the angle to a cardinal direction.
Cardinal(angle) ==
  IF 0 - 45000 <= angle /\ angle <= 45000 THEN "E"
  ELSE IF 45000 < angle /\ angle <= 135000 THEN "S"
  ELSE IF 0 - 135000 <= angle /\ angle < 0 - 45000 THEN "N"
  ELSE "W"

\* return None, None
NoMotion == [speed |-> [some |-> FALSE, d2 |-> 0, dt |-> 0], direction |-> "None"]

\* A test that also takes a negative elapsed time for none.
ElapsedNotPositive(time_diff) == time_diff <= 0

\* if time_diff == 0:
ElapsedIsZero(time_diff) == time_diff = 0

\* calculate_speed_and_direction after the slice, on the track's history.
\* The speed np.sqrt(dx**2 + dy**2) / time_diff is carried as the pair of
\* the squared distance d2 and the elapsed time dt.
SpeedAndDirection(h) ==
  IF Len(h) < 2 THEN NoMotion
  ELSE LET current_pos == h[Len(h)]
           prev_pos == h[Len(h) - 1]
           time_diff == current_pos.t - prev_pos.t
           dx == current_pos.x - prev_pos.x
           dy == current_pos.y - prev_pos.y
       IN IF ElapsedIsZero(time_diff) THEN NoMotion
          ELSE [speed |-> [some |-> TRUE, d2 |-> dx * dx + dy * dy, dt |-> time_diff],
                direction |-> Cardinal(AngleMilliDeg(dy, dx))]

\* A sweep that takes no entry for stale.
NeverStale(track_id, current_tracks) == FALSE

\* if track_id not in current_tracks:
Stale(track_id, current_tracks) == track_id \notin current_tracks

\* cleanup_old_tracks: the loop over list(self.track_history.keys()).
RECURSIVE SweepLoop(_, _, _)
SweepLoop(hist, keys, current_tracks) ==
  IF keys = << >> THEN hist
  ELSE LET track_id == Head(keys)
           rest == IF Stale(track_id, current_tracks)
                     THEN [k \in (DOMAIN hist) \ {track_id} |-> hist[k]]
                     ELSE hist
       IN SweepLoop(rest, Tail(keys), current_tracks)

cleanup_old_tracks(hist, st) == SweepLoop(hist, InOrder(DOMAIN hist), ConfirmedIds(st))

\* A coroutine that could be suspended at every statement.
SuspendsAnywhere(point) == TRUE

\* The points of process_message at which the coroutine is not running:
\* before the delivery, and in `await self.publish_events(events)`.
Suspends(point) == point \in {"idle", "publish"}

\* The event loop after a step of process_message that leads to `point`.
AfterStep(point) == IF Suspends(point) THEN "none" ELSE "handler"

NoItem == [x |-> 0, y |-> 0, t |-> 0]

NotCalled == [called |-> FALSE, matched |-> 0]

\* The plate texts the recognition stage reads, by observation.
Text(n) == IF n % 2 = 1 THEN "AB1234" ELSE "ABC123"

\* OCRResult(...).__dict__: the item of the n-th observation as the
\* recognition stage publishes it.
OcrResult(n) ==
  [text |-> Text(n), confidence |-> 9, bbox |-> "bbox", timestamp |-> n,
   camera_id |-> "", plate_crop |-> "jpeg"]

TrackInit ==
  /\ track_history = << >>
  /\ k_status = [id \in TrackIds |-> "none"]
  /\ k_pc = "idle"
  /\ k_item = NoItem
  /\ k_todo = << >>
  /\ k_events = << >>
  /\ k_obs = 0
  /\ k_assoc = NotCalled
  /\ swept = FALSE
  /\ running = "none"

\* A message is delivered: process_message starts, events = [].
KReceive ==
  /\ swept' = FALSE
  /\ k_pc = "idle"
  /\ running = "none"
  /\ k_pc' = "item"
  /\ k_events' = << >>
  /\ k_assoc' = NotCalled
  /\ running' = AfterStep("item")
  /\ UNCHANGED << notTrack, track_history, k_status, k_item, k_todo, k_obs >>

\* An item without a bbox: `if not bbox: continue`.
KSkip ==
  /\ swept' = FALSE
  /\ k_pc = "item"
  /\ running \in {"none", "handler"}
  /\ k_assoc' = NotCalled
  /\ running' = AfterStep("item")
  /\ UNCHANGED << notTrack, track_history, k_status, k_pc, k_item, k_todo,
                  k_events, k_obs >>

\* The next item of the message: tracks = self.tracker.update_tracks([bbox]);
\* the confirmed ones are handled in turn.  No more than `most` observations
\* are followed.
KUpdate(pos, st, m, most) ==
  /\ swept' = FALSE
  /\ k_pc = "item"
  /\ running \in {"none", "handler"}
  /\ k_obs < most
  /\ Advances(k_status, st)
  /\ Matches(k_status, st, m)
  /\ k_assoc' = [called |-> TRUE, matched |-> m]
  /\ k_status' = st
  /\ k_obs' = k_obs + 1
  /\ k_item' = pos
  /\ k_todo' = InOrder(ConfirmedIds(st))
  /\ k_pc' = IF ConfirmedIds(st) = {} THEN "item" ELSE "append"
  /\ running' = AfterStep(k_pc')
  /\ UNCHANGED << notTrack, track_history, k_events >>

\* calculate_speed_and_direction for the next confirmed track, up to the
\* slice.
KAppend ==
  /\ swept' = FALSE
  /\ k_pc = "append"
  /\ running \in {"none", "handler"}
  /\ track_history' = AppendPosition(track_history, Head(k_todo), k_item)
  /\ k_pc' = "compute"
  /\ running' = AfterStep("compute")
  /\ UNCHANGED << notTrack, k_status, k_item, k_todo, k_events, k_obs, k_assoc >>

\* The rest of calculate_speed_and_direction and the TrackingEvent; a
\* missing entry is a KeyError, which ends the item.
KCompute ==
  /\ swept' = FALSE
  /\ k_pc = "compute"
  /\ running \in {"none", "handler"}
  /\ IF Head(k_todo) \in DOMAIN track_history
       THEN LET r == SpeedAndDirection(track_history[Head(k_todo)]) IN
            /\ k_events' = Append(k_events,
                 [vehicle_id |-> Head(k_todo),
                  plate |-> Get(OcrResult(k_obs), "plate", ""),
                  timestamp |-> k_item.t,
                  speed |-> r.speed,
                  direction |-> r.direction])
            /\ k_todo' = Tail(k_todo)
       ELSE /\ k_todo' = << >>
            /\ UNCHANGED k_events
  /\ k_pc' = IF k_todo' = << >> THEN "item" ELSE "append"
  /\ running' = AfterStep(k_pc')
  /\ UNCHANGED << notTrack, track_history, k_status, k_item, k_obs, k_assoc >>

\* The item loop is over: `if events: await self.publish_events(events)`,
\* or the handler returns.
KEndLoop ==
  /\ swept' = FALSE
  /\ k_pc = "item"
  /\ running \in {"none", "handler"}
  /\ k_pc' = IF k_events # << >> THEN "publish" ELSE "idle"
  /\ running' = "none"
  /\ UNCHANGED << notTrack, track_history, k_status, k_item, k_todo, k_events,
                  k_obs, k_assoc >>

\* publish_events is over and the handler returns.
KPublished ==
  /\ swept' = FALSE
  /\ k_pc = "publish"
  /\ running = "none"
  /\ k_pc' = "idle"
  /\ k_events' = << >>
  /\ UNCHANGED << notTrack, track_history, k_status, k_item, k_todo, k_obs,
                  k_assoc, running >>

\* run(): asyncio.sleep(60) is over and self.cleanup_old_tracks() runs, to
\* its end, before the next await.
KSweep ==
  /\ running = "none"
  /\ track_history' = cleanup_old_tracks(track_history, k_status)
  /\ swept' = TRUE
  /\ UNCHANGED << notTrack, k_status, k_pc, k_item, k_todo, k_events, k_obs,
                  k_assoc, running >>

\* The tracking stage, a vehicle observed once a second.
TrackNext ==
  \/ KReceive
  \/ KSkip
  \/ \E st \in [TrackIds -> Statuses], m \in 0..MaxTracks :
       KUpdate(NthPosition(k_obs + 1), st, m, MaxObs)
  \/ KAppend
  \/ KCompute
  \/ KEndLoop
  \/ KPublished
  \/ KSweep

\* The tracking stage, three observations anywhere on the grid.
MotionNext ==
  \/ KReceive
  \/ KSkip
  \/ \E pos \in Positions, st \in [TrackIds -> Statuses], m \in 0..MaxTracks :
       KUpdate(pos, st, m, 3)
  \/ KAppend
  \/ KCompute
  \/ KEndLoop
  \/ KPublished

(***************************************************************************)
(* Claims about the tracking stage, checked under SpecTrack and            *)
(* SpecMotion.                                                             *)
(***************************************************************************)
\* C13: a track's history has at most 5 entries, in arrival order, and the
\* append of a position keeps the last min(k, 5) of the k positions the old
\* history and the new position make: the new position is last, the others
\* are the newest of the old history in their order, and the oldest is
\* dropped when there were 5; no other track's history changes.
C13_HistoryOldestFirst ==
  /\ [](\A id \in DOMAIN track_history :
          /\ Len(track_history[id]) \in 1..5
          /\ \A i \in 1..(Len(track_history[id]) - 1) :
               track_history[id][i].t < track_history[id][i + 1].t)
  /\ [][(k_pc = "append" /\ k_pc' = "compute") =>
          LET id == Head(k_todo)
              new == track_history'[id]
              old == IF id \in DOMAIN track_history THEN track_history[id] ELSE << >>
          IN /\ id \in DOMAIN track_history'
             /\ Len(new) = Min(Len(old) + 1, 5)
             /\ new[Len(new)] = k_item
             /\ \A i \in 1..(Len(new) - 1) :
                  new[i] = old[i + Len(old) + 1 - Len(new)]
             /\ \A other \in DOMAIN track_history \ {id} :
                  other \in DOMAIN track_history'
                    /\ track_history'[other] = track_history[other]
       ]_vars

\* C13 witness: a track confirmed at the second observation has been fed
\* the observations 2 to 7 and holds the observations 3 to 7.
C13_Witness ==
  \E id \in DOMAIN track_history :
    /\ Len(track_history[id]) = 5
    /\ track_history[id][1] = NthPosition(3)
    /\ track_history[id][5] = NthPosition(7)

\* The event made last, while the history its track had then is unchanged.
LastEventFresh == k_pc \in {"item", "append"} /\ k_events # << >>
LastEvent == k_events[Len(k_events)]
LastHistory == track_history[LastEvent.vehicle_id]
LastDx == LastHistory[Len(LastHistory)].x - LastHistory[Len(LastHistory) - 1].x
LastDy == LastHistory[Len(LastHistory)].y - LastHistory[Len(LastHistory) - 1].y
LastDt == LastHistory[Len(LastHistory)].t - LastHistory[Len(LastHistory) - 1].t

\* C14: for every displacement (dx, dy) with non-zero elapsed time the
\* direction is one of E, S, N, W, fixed by the displacement: E in the
\* sector from -45 to 45 degrees with both ends, S above 45 up to 135, N
\* from -135 up to but without -45, W elsewhere; (1,0) is E, (0,1) is S,
\* (-1,0) is W, (0,-1) is N, and (1,1), at 45 degrees, is E.
C14_DirectionQuantization ==
  (LastEventFresh /\ Len(LastHistory) >= 2 /\ LastDt # 0) =>
    LET dx == LastDx
        dy == LastDy
        d == LastEvent.direction
    IN /\ d \in {"E", "S", "N", "W"}
       /\ d = "E" <=> (dx > 0 /\ dy <= dx /\ 0 - dy <= dx) \/ (dx = 0 /\ dy = 0)
       /\ d = "S" <=> (dy > 0 /\ 0 - dy <= dx /\ dx < dy)
       /\ d = "N" <=> (dy < 0 /\ dy <= dx /\ dx < 0 - dy)
       /\ (dx = 1 /\ dy = 0 => d = "E")
       /\ (dx = 0 /\ dy = 1 => d = "S")
       /\ (dx = 0 - 1 /\ dy = 0 => d = "W")
       /\ (dx = 0 /\ dy = 0 - 1 => d = "N")
       /\ (dx = 1 /\ dy = 1 => d = "E")

\* C14 witness: an event for a displacement of (1,1), the 45 degree
\* boundary, was made and says E.
C14_Witness ==
  /\ LastEventFresh /\ Len(LastHistory) >= 2 /\ LastDt # 0
  /\ LastDx = 1 /\ LastDy = 1
  /\ LastEvent.direction = "E"

\* C15: speed and direction are both absent when the track has fewer than
\* 2 history points after the append or the last two points have the same
\* timestamp; otherwise both are present and the speed is the euclidean
\* distance of the last two points (here its square) over the elapsed time.
C15_SpeedAndDirection ==
  LastEventFresh =>
    IF Len(LastHistory) < 2 \/ LastDt = 0
      THEN ~LastEvent.speed.some /\ LastEvent.direction = "None"
      ELSE /\ LastEvent.speed.some
           /\ LastEvent.direction # "None"
           /\ LastEvent.speed.d2 = LastDx * LastDx + LastDy * LastDy
           /\ LastEvent.speed.dt = LastDt

\* C15 witness: an event with a speed for a displacement of (1,-1) in one
\* second, after an event without one on the same track.
C15_Witness ==
  /\ LastEventFresh /\ Len(LastHistory) = 2
  /\ LastDx = 1 /\ LastDy = 0 - 1 /\ LastDt = 1
  /\ LastEvent.speed = [some |-> TRUE, d2 |-> 2, dt |-> 1]

\* C16: a sweep removes the history of every track id that is not
\* confirmed and leaves the history of every confirmed track as it was;
\* right after it every key of the history mapping is a confirmed track.
C16_SweepRemovesUnconfirmed ==
  /\ [](swept => \A id \in DOMAIN track_history : k_status[id] = "confirmed")
  /\ [][swept' =>
          /\ DOMAIN track_history' \subseteq DOMAIN track_history
          /\ \A id \in DOMAIN track_history :
               IF k_status[id] = "confirmed"
                 THEN id \in DOMAIN track_history'
                        /\ track_history'[id] = track_history[id]
                 ELSE id \notin DOMAIN track_history'
       ]_vars

\* C16 witness: a sweep has just removed the history of a deleted track
\* and kept that of a confirmed one.
C16_Witness ==
  /\ swept
  /\ k_status[1] = "deleted" /\ 1 \notin DOMAIN track_history
  /\ k_status[2] = "confirmed" /\ 2 \in DOMAIN track_history
  /\ Len(track_history[2]) >= 2

\* C17: the sweep runs only while no message is in the middle of its item
\* loop, so never between the append of a position and the computation
\* that reads it; when the computation runs, the entry of its track is
\* there and ends with the position just appended.
C17_SweepNeverInterleaves ==
  /\ [](/\ k_pc \in {"item", "append", "compute"} => running = "handler"
        /\ k_pc = "compute" =>
             /\ Head(k_todo) \in DOMAIN track_history
             /\ track_history[Head(k_todo)][Len(track_history[Head(k_todo)])] = k_item)
  /\ [][swept' => k_pc \in {"idle", "publish"} /\ UNCHANGED k_pc]_vars

\* C17 witness: a sweep has run while a handler was suspended in its
\* publish, and removed an entry the handler had appended to.
C17_Witness ==
  /\ swept /\ k_pc = "publish"
  /\ \E i \in 1..Len(k_events) : k_events[i].vehicle_id \notin DOMAIN track_history

\* C24: every TrackingEvent carries the plate text of the recognition
\* result whose observation produced it.
C24_EventCarriesPlateText ==
  \A i \in 1..Len(k_events) :
    k_events[i].plate = OcrResult(k_events[i].timestamp).text

\* C28: the position appended to a track's history belongs to the track
\* the observation was associated with: a confirmed track that the current
\* observation was not matched to does not get its centre appended.
C28_OwnPositionAppended ==
  [][(k_pc = "append" /\ k_pc' = "compute") => Head(k_todo) = k_assoc.matched]_vars

\* The events made for the current item, by their index in events.
EventsOfItem == {i \in 1..Len(k_events) : k_events[i].timestamp = k_item.t}

C35_SpeedNonNegative ==
  \A i \in 1..Len(k_events) :
    k_events[i].speed.some =>
      k_events[i].speed.d2 = 0 \/ k_events[i].speed.dt > 0

(***************************************************************************)
(* StorageService: process_message stores the events of a message, and     *)
(* cleanup_old_data is the retention sweep.  Time is counted in days; a    *)
(* row is known by the timestamp of its event, an object by its key, which *)
(* the event's timestamp makes.                                            *)
(***************************************************************************)
MaxDay == 2
MaxEvents == 2

RETENTION_DAYS == 7

Days == 0..MaxDay
Clock == RETENTION_DAYS..(RETENTION_DAYS + MaxDay)
StoredEvents == [ts : Days, crop : BOOLEAN]
EventLists == UNION {[1..n -> StoredEvents] : n \in 0..MaxEvents}
BlobStores == UNION {[K -> Days] : K \in SUBSET Days}

\* ts < :cutoff
ExpiredOrAt(ts, cutoff) == ts <= cutoff

Expired(ts, cutoff) == ts < cutoff

\* The objects of a listing, in key order.
RECURSIVE Listing(_, _)
Listing(blobs, K) ==
  IF K = {} THEN << >>
  ELSE LET k == CHOOSE x \in K : \A y \in K : x <= y
       IN << [Key |-> k, LastModified |-> blobs[k]] >> \o Listing(blobs, K \ {k})

Without(blobs, key) == [k \in (DOMAIN blobs) \ {key} |-> blobs[k]]

With(blobs, key, day) ==
  [k \in (DOMAIN blobs) \cup {key} |-> IF k = key THEN day ELSE blobs[k]]

\* The ids of the rows of a table.
Stored(records) == {id \in DOMAIN records : records[id] >= 1}

\* The table that holds one row for each id of S.
Table(S) == [id \in Days |-> IF id \in S THEN 1 ELSE 0]

\* id = Column(String, primary_key=True): the commit of a row whose id the
\* table holds already raises IntegrityError.
NoPrimaryKey(records, id) == FALSE
Rejected(records, id) == records[id] >= 1

StoreInit ==
  /\ s_records = Table({})
  /\ s_error = "None"
  /\ s_blobs = << >>
  /\ s_now = RETENTION_DAYS
  /\ s_pc = "idle"
  /\ s_todo = << >>
  /\ s_tasks = 0
  /\ s_processed = FALSE
  /\ s_swept = FALSE
  /\ r_pc = "idle"
  /\ r_cutoff = 0
  /\ r_committed = FALSE
  /\ r_deleted = 0
  /\ r_todo = << >>
  /\ tz_aware = TRUE

sweepVars == << s_swept, r_pc, r_cutoff, r_committed, r_deleted, r_todo, tz_aware >>
messageVars == << s_pc, s_todo, s_tasks, s_processed, s_error >>

\* process_message: the body is a list of events; a BackgroundTasks object
\* of the handler's own is made.
SReceive(events) ==
  /\ s_pc = "idle"
  /\ s_todo' = events
  /\ s_tasks' = 0
  /\ s_pc' = "event"
  /\ UNCHANGED << notStore, s_records, s_error, s_blobs, s_now, s_processed,
                  sweepVars >>

\* A handler that goes on to the insert whether or not the put succeeded.
SStoreImageUnchecked(ok) ==
  /\ s_pc = "event"
  /\ s_todo # << >>
  /\ Head(s_todo).crop
  /\ s_blobs' = IF ok THEN With(s_blobs, Head(s_todo).ts, s_now) ELSE s_blobs
  /\ s_pc' = "insert"
  /\ UNCHANGED << notStore, s_records, s_error, s_now, s_todo, s_tasks,
                  s_processed, sweepVars >>

\* An event with a plate_crop: store_plate_image puts the object, or fails,
\* and the failure ends the event.
SStoreImage(ok) ==
  /\ s_pc = "event"
  /\ s_todo # << >>
  /\ Head(s_todo).crop
  /\ IF ok
       THEN /\ s_blobs' = With(s_blobs, Head(s_todo).ts, s_now)
            /\ s_pc' = "insert"
            /\ UNCHANGED << s_todo, s_error >>
       ELSE /\ s_todo' = Tail(s_todo)
            /\ s_error' = "StorageError"
            /\ UNCHANGED << s_blobs, s_pc >>
  /\ UNCHANGED << notStore, s_records, s_now, s_tasks, s_processed, sweepVars >>

\* An event without a plate_crop goes to the insert.
SNoImage ==
  /\ s_pc = "event"
  /\ s_todo # << >>
  /\ ~Head(s_todo).crop
  /\ s_pc' = "insert"
  /\ UNCHANGED << notStore, s_records, s_error, s_blobs, s_now, s_todo,
                  s_tasks, s_processed, sweepVars >>

\* session.add(event) and commit: the row is made unless its id, which plate
\* and timestamp make, is there already or the database fails; either
\* exception ends the event.
SInsert(ok) ==
  /\ s_pc = "insert"
  /\ LET id == Head(s_todo).ts IN
       IF ~ok
         THEN s_error' = "OperationalError" /\ UNCHANGED s_records
         ELSE IF Rejected(s_records, id)
           THEN s_error' = "IntegrityError" /\ UNCHANGED s_records
           ELSE /\ s_records' = [s_records EXCEPT ![id] = @ + 1]
                /\ s_error' = "None"
  /\ s_todo' = Tail(s_todo)
  /\ s_pc' = "event"
  /\ UNCHANGED << notStore, s_blobs, s_now, s_tasks, s_processed, sweepVars >>

\* background_tasks.add_task(self.cleanup_old_data): the task is added to
\* the handler's object; nothing runs it.
SSchedule ==
  /\ s_pc = "event"
  /\ s_todo = << >>
  /\ s_tasks' = s_tasks + 1
  /\ s_pc' = "exit"
  /\ UNCHANGED << notStore, s_records, s_error, s_blobs, s_now, s_todo,
                  s_processed, sweepVars >>

\* The handler returns: the message is acknowledged and the handler's
\* BackgroundTasks object is dropped with it.
SFinish ==
  /\ s_pc = "exit"
  /\ s_tasks' = 0
  /\ s_processed' = TRUE
  /\ s_pc' = "idle"
  /\ UNCHANGED << notStore, s_records, s_error, s_blobs, s_now, s_todo,
                  sweepVars >>

\* A day passes.
STick ==
  /\ s_now < RETENTION_DAYS + MaxDay
  /\ s_now' = s_now + 1
  /\ UNCHANGED << notStore, s_records, s_blobs, messageVars, sweepVars >>

StorageNext ==
  \/ \E events \in EventLists : SReceive(events)
  \/ \E ok \in BOOLEAN : SStoreImage(ok)
  \/ SNoImage
  \/ \E ok \in BOOLEAN : SInsert(ok)
  \/ SSchedule
  \/ SFinish
  \/ STick

\* cleanup_old_data is entered: cutoff_date.
RStart ==
  /\ r_pc = "idle"
  /\ r_cutoff' = s_now - RETENTION_DAYS
  /\ r_committed' = FALSE
  /\ r_deleted' = 0
  /\ s_swept' = TRUE
  /\ r_pc' = "delete"
  /\ UNCHANGED << notStore, s_records, s_blobs, s_now, messageVars, r_todo, tz_aware >>

\* DELETE FROM events WHERE ts < :cutoff, and the commit.
RDeleteRecords ==
  /\ r_pc = "delete"
  /\ s_records' = [ts \in Days |-> IF Expired(ts, r_cutoff) THEN 0 ELSE s_records[ts]]
  /\ r_deleted' = SumOver(s_records, Days) - SumOver(s_records', Days)
  /\ r_committed' = TRUE
  /\ r_pc' = "list"
  /\ UNCHANGED << notStore, s_blobs, s_now, messageVars, s_swept, r_cutoff,
                  r_todo, tz_aware >>

\* The statement or the commit raises: the except clause ends the sweep.
RDeleteFails ==
  /\ r_pc = "delete"
  /\ r_pc' = "idle"
  /\ UNCHANGED << notStore, s_records, s_blobs, s_now, messageVars, s_swept,
                  r_cutoff, r_committed, r_deleted, r_todo, tz_aware >>

\* list_objects_v2, or its failure.
RList(ok) ==
  /\ r_pc = "list"
  /\ IF ok
       THEN r_todo' = Listing(s_blobs, DOMAIN s_blobs) /\ r_pc' = "objects"
       ELSE r_todo' = << >> /\ r_pc' = "idle"
  /\ UNCHANGED << notStore, s_records, s_blobs, s_now, messageVars, s_swept,
                  r_cutoff, r_committed, r_deleted, tz_aware >>

\* One object of the listing: the comparison of its LastModified with the
\* cutoff, which has no timezone, raises if LastModified has one; an object
\* older than the cutoff is deleted, unless delete_object fails.
RObject(ok) ==
  /\ r_pc = "objects"
  /\ r_todo # << >>
  /\ IF tz_aware
       THEN /\ r_todo' = << >>
            /\ r_pc' = "idle"
            /\ UNCHANGED s_blobs
       ELSE IF ~Expired(Head(r_todo).LastModified, r_cutoff)
         THEN /\ r_todo' = Tail(r_todo)
              /\ UNCHANGED << s_blobs, r_pc >>
         ELSE IF ok
           THEN /\ s_blobs' = Without(s_blobs, Head(r_todo).Key)
                /\ r_todo' = Tail(r_todo)
                /\ UNCHANGED r_pc
           ELSE /\ r_todo' = << >>
                /\ r_pc' = "idle"
                /\ UNCHANGED s_blobs
  /\ UNCHANGED << notStore, s_records, s_now, messageVars, s_swept, r_cutoff,
                  r_committed, r_deleted, tz_aware >>

\* The listing is through: the sweep returns.
RDone ==
  /\ r_pc = "objects"
  /\ r_todo = << >>
  /\ r_pc' = "idle"
  /\ UNCHANGED << notStore, s_records, s_blobs, s_now, messageVars, s_swept,
                  r_cutoff, r_committed, r_deleted, r_todo, tz_aware >>

\* A day passes between two sweeps.
RTick ==
  /\ r_pc = "idle"
  /\ s_now < RETENTION_DAYS + MaxDay
  /\ s_now' = s_now + 1
  /\ UNCHANGED << notStore, s_records, s_blobs, messageVars, sweepVars >>

\* The message handler alone, message after message within one day.
DeliveryNext ==
  \/ \E events \in EventLists : SReceive(events)
  \/ \E ok \in BOOLEAN : SStoreImage(ok)
  \/ SNoImage
  \/ \E ok \in BOOLEAN : SInsert(ok)
  \/ SSchedule
  \/ SFinish

RetentionNext ==
  \/ RStart
  \/ RDeleteRecords
  \/ RDeleteFails
  \/ \E ok \in BOOLEAN : RList(ok)
  \/ \E ok \in BOOLEAN : RObject(ok)
  \/ RDone
  \/ RTick

(***************************************************************************)
(* Claims about the storage stage, checked under SpecRetention and         *)
(* SpecStorage.                                                            *)
(***************************************************************************)
\* C18: the record deletion of a sweep removes every row whose timestamp is
\* before now - RETENTION_DAYS and keeps every row at or after it; an
\* object is deleted only in a sweep whose record deletion has succeeded,
\* and a sweep whose record deletion fails deletes no object.
C18_RetentionSweep ==
  /\ [][(r_pc = "delete" /\ r_pc' = "list") =>
          /\ \A ts \in Stored(s_records) :
               IF ts < s_now - RETENTION_DAYS
                 THEN ts \notin Stored(s_records')
                 ELSE s_records'[ts] = s_records[ts]
          /\ Stored(s_records') \subseteq Stored(s_records)
          /\ s_blobs' = s_blobs
       ]_vars
  /\ [][s_blobs' # s_blobs => r_committed /\ r_committed' /\ r_pc = "objects"]_vars
  /\ [][(r_pc = "delete" /\ r_pc' # "list") =>
          r_pc' = "idle" /\ ~r_committed' /\ s_blobs' = s_blobs
            /\ s_records' = s_records]_vars
  /\ [](r_pc \in {"list", "objects"} => r_committed)

\* C18 witness: at day 8 a sweep has removed the row of day 0, which is 8
\* days old, and kept the rows of day 1 and day 2, and goes on to the
\* objects, of which the one of day 0 is still there.
C18_Witness ==
  /\ s_now = RETENTION_DAYS + 1
  /\ r_pc = "objects" /\ r_committed /\ r_deleted = 1
  /\ Stored(s_records) = {1, 2}
  /\ 0 \in DOMAIN s_blobs

\* C19: after the storage stage has processed a message, a retention sweep
\* is eventually executed.
C19_SweepAfterProcessing == s_processed ~> s_swept

C34_RecordAfterBlob ==
  /\ [][s_records' # s_records =>
          /\ s_pc = "insert" /\ s_todo # << >>
          /\ Head(s_todo).crop =>
               /\ Head(s_todo).ts \in DOMAIN s_blobs
               /\ s_blobs[Head(s_todo).ts] = s_now]_vars
  /\ [][(s_pc = "event" /\ s_todo # << >> /\ Head(s_todo).crop /\ s_pc' # "insert") =>
          /\ s_records' = s_records
          /\ s_blobs' = s_blobs
          /\ s_todo' = Tail(s_todo)
          /\ s_pc' = "event"]_vars
  /\ [][(s_pc = "event" /\ s_pc' = "exit") => s_todo = << >>]_vars
  /\ [][s_processed' # s_processed => s_pc = "exit" /\ s_pc' = "idle"]_vars

\* C34 witness: in the first message, of two events with crops, the put of
\* the first event failed and left neither object nor row, and the handler
\* has gone on to the second event, whose object is written and whose row
\* is about to be inserted.
C34_Witness ==
  /\ ~s_processed /\ s_pc = "insert"
  /\ s_error = "StorageError"
  /\ Len(s_todo) = 1 /\ Head(s_todo).crop
  /\ DOMAIN s_blobs = {Head(s_todo).ts}
  /\ Stored(s_records) = {}

(***************************************************************************)
(* The specifications.                                                     *)
(***************************************************************************)
IngestQuiet ==
  /\ IngestInit
  /\ enabled = [s \in Sources |-> TRUE]

\* The ingestion stage.
Init == IngestInit /\ HandlerQuiet /\ InferInit /\ TrackInit /\ StoreInit /\ FlowInit
Spec == Init /\ [][IngestNext]_vars

\* The ingestion stage with an event loop that runs whatever is ready,
\* followed for as many frames as make one batch.
InitLive == IngestInit /\ HandlerQuiet /\ InferInit /\ TrackInit /\ StoreInit /\ FlowInit
LiveNext == IngestNext /\ SumOver(captured', Sources) <= BatchSize
SpecLive ==
  InitLive /\ [][LiveNext]_vars /\ \A p \in Procs : WF_vars(ProcStep(p))

\* One consuming stage: its message handler.
InitHandlers == IngestQuiet /\ HandlerInit /\ InferInit /\ TrackInit /\ StoreInit /\ FlowInit
SpecHandlers == InitHandlers /\ [][HandlerNext]_vars

\* The detection service and the ocr service, each a process of its own:
\* what the one does with a frame's boxes and the other with a plate crop.
InitInfer == IngestQuiet /\ HandlerQuiet /\ InferInit /\ TrackInit /\ StoreInit /\ FlowInit
SpecInfer == InitInfer /\ [][InferNext]_vars

\* The tracking stage: message handling and the periodic sweep.
InitTrack == IngestQuiet /\ HandlerQuiet /\ InferInit /\ TrackInit /\ StoreInit /\ FlowInit
SpecTrack == InitTrack /\ [][TrackNext]_vars

\* The tracking stage: the speed and direction between two observations.
InitMotion == IngestQuiet /\ HandlerQuiet /\ InferInit /\ TrackInit /\ StoreInit /\ FlowInit
SpecMotion == InitMotion /\ [][MotionNext]_vars

\* The storage stage: its message handler, with messages that keep
\* arriving and a handler that keeps running.
InitStorage == IngestQuiet /\ HandlerQuiet /\ InferInit /\ TrackInit /\ StoreInit /\ FlowInit
SpecStorage == InitStorage /\ [][StorageNext]_vars /\ WF_vars(StorageNext)

\* The storage stage: messages that deliver events it may hold already.
InitDelivery == IngestQuiet /\ HandlerQuiet /\ InferInit /\ TrackInit /\ StoreInit /\ FlowInit
SpecDelivery == InitDelivery /\ [][DeliveryNext]_vars

\* The retention sweep, called on a store that earlier messages have filled.
InitRetention ==
  /\ IngestQuiet /\ HandlerQuiet /\ InferInit /\ TrackInit /\ FlowInit
  /\ s_records \in {Table(S) : S \in SUBSET Days}
  /\ s_error = "None"
  /\ s_blobs \in BlobStores
  /\ tz_aware \in BOOLEAN
  /\ s_now = RETENTION_DAYS
  /\ s_pc = "idle"
  /\ s_todo = << >>
  /\ s_tasks = 0
  /\ s_processed = FALSE
  /\ s_swept = FALSE
  /\ r_pc = "idle"
  /\ r_cutoff = 0
  /\ r_committed = FALSE
  /\ r_deleted = 0
  /\ r_todo = << >>
SpecRetention == InitRetention /\ [][RetentionNext]_vars

\* A frame's detections on their way from the detection stage to the
\* recognition stage.
InitFlow == IngestQuiet /\ HandlerQuiet /\ InferInit /\ TrackInit /\ StoreInit /\ FlowInit
SpecFlow == InitFlow /\ [][FlowNext]_vars

====
